---- MODULE Spec2Model ----
(***************************************************************************)
(* A model of nest-cli: the credential files written by `auth login`, the  *)
(* construction of the API client from those files, and the translation of *)
(* `devices list`, `devices status`, `set temp` and `set mode` into calls  *)
(* of the device-management API.  One CLI invocation runs at a time; each  *)
(* action is one statement (or one call) of the running invocation, so the *)
(* states between two statements are the states another process on the     *)
(* machine can observe.                                                    *)
(*                                                                         *)
(* Strings are TLA+ strings handled character by character (SubSeq, \o).   *)
(* File modes are the integer value of the octal permission bits.          *)
(* Failures modelled: an unreadable client-secret source, a failing copy   *)
(* or write in login, a consent flow that does not complete, a failing API *)
(* call.  A failing chmod or mkdir is left out.                            *)
(***************************************************************************)
EXTENDS Integers, Sequences, FiniteSets, TLC

VARIABLES
    dir,          \* the nest-cli config directory: [exists, mode]
    files,        \* the three files in it: name -> [exists, mode, content]
    pc,           \* position of the running invocation, "idle" when none runs
    cmd,          \* the parsed command line of the running invocation
    client,       \* Client built by Client::new: [built, project_id]
    device,       \* Option<Device> fetched by get_device in this invocation
    pending,      \* Option<command> built and about to be passed to execute_command
    calls,        \* Client method calls of this invocation, in order:
                  \* Seq of [op, name, command, params, ok]
    netCalls,     \* HTTP requests sent to the API in this invocation
    flowStarted,  \* the interactive consent flow was started in this invocation
    stdout,       \* lines printed by this invocation
    result        \* Result returned to main: [done, ok, err, msg]

vars == <<dir, files, pc, cmd, client, device, pending, calls,
          netCalls, flowStarted, stdout, result>>

----------------------------------------------------------------------------
(* Bounds and input sets *)

\* target temperatures (whole degrees Fahrenheit) tried by `set temp`
MaxTempF == 70
TempsF == 68 .. MaxTempF

MODE_0600 == 384
MODE_0700 == 448
MODE_0644 == 420
MODE_0666 == 438
UMASK_022 == 18
UMASK_077 == 63

FileNames == {"client_secret.json", "project_id", "tokens.json"}

\* --project-id arguments: clap accepts any string
ProjectIdArgs == {"p2", "", "a/b", " p1\n"}

\* <id> arguments
DeviceRefs == {"d1", "enterprises/p1/devices/d1", "x/enterprises/p1"}

\* <mode> arguments of `set mode`
ModeArgs == {"heat", "HEAT", "Heat", "cool", "Cool", "heatcool", "HeatCool",
             "off", "OFF", "invalid", "AUTO", "heat "}

\* the --client-secret source file: whether it is a readable application
\* secret, and its permission bits
SecretSources == [readable : BOOLEAN, mode : {MODE_0644, MODE_0600}]

Umasks == {UMASK_022, UMASK_077}

----------------------------------------------------------------------------
(* Option and JSON values *)

None == [some |-> FALSE]
Some(v) == [some |-> TRUE, v |-> v]

JStr(s) == [t |-> "str", v |-> s]
JNum(n) == [t |-> "num", n |-> n]
\* f64 produced by fahrenheit_to_celsius: the exact rational num/den
JF64(n, d) == [t |-> "f64", num |-> n, den |-> d]
\* a JSON object: a function from a set of keys to JSON values
JObj(f) == [t |-> "obj", v |-> f]

\* serde_json Value::get(key): Some only on an object that has the key
JGet(v, key) ==
    IF v.t = "obj" /\ key \in DOMAIN v.v THEN Some(v.v[key]) ELSE None

\* serde_json Value::as_str(): Some only on a string
JAsStr(v) == IF v.t = "str" THEN Some(v.v) ELSE None

ModeTrait(m) == JObj([mode |-> m])
InfoTrait == JObj([customName |-> JStr("Hall")])

\* trait maps the API may return
TraitMaps ==
    {[n \in {"sdm.devices.traits.Info"} |-> InfoTrait]}
    \cup {[n \in {"sdm.devices.traits.Info", "sdm.devices.traits.ThermostatMode"} |->
              IF n = "sdm.devices.traits.Info" THEN InfoTrait ELSE ModeTrait(m)] :
          m \in {JStr("HEAT"), JStr("COOL"), JStr("HEATCOOL"), JStr("OFF"),
                 JStr("MANUAL_ECO"), JNum(1)}}
    \cup {[n \in {"sdm.devices.traits.ThermostatMode"} |-> JObj([status |-> JStr("x")])]}

THERMOSTAT_TYPE == "sdm.devices.types.THERMOSTAT"

\* GoogleHomeEnterpriseSdmV1Device: name, type_ and traits are all Option
Device(n, ty, tr) == [name |-> n, type_ |-> ty, traits |-> tr]

\* devices the API may return from devices_get
Devices ==
    {Device(Some("enterprises/p1/devices/d1"), Some(THERMOSTAT_TYPE), None)}
    \cup {Device(Some("enterprises/p1/devices/d1"), Some(THERMOSTAT_TYPE), Some(t)) :
            t \in TraitMaps}

\* device lists the API may return from devices_list
ListResponses ==
    {<< >>,
     <<Device(Some("enterprises/p1/devices/cam"), Some("sdm.devices.types.CAMERA"), None)>>,
     <<Device(Some("enterprises/p1/devices/d1"), Some(THERMOSTAT_TYPE),
              Some([n \in {"sdm.devices.traits.Info"} |-> InfoTrait])),
       Device(None, Some(THERMOSTAT_TYPE), None)>>}

----------------------------------------------------------------------------
(* Strings *)

\* the lower-case form of one ASCII character
LowerChar(c) ==
    IF \E i \in 1 .. 26 : SubSeq("ABCDEFGHIJKLMNOPQRSTUVWXYZ", i, i) = c
    THEN LET i == CHOOSE k \in 1 .. 26 : SubSeq("ABCDEFGHIJKLMNOPQRSTUVWXYZ", k, k) = c
         IN SubSeq("abcdefghijklmnopqrstuvwxyz", i, i)
    ELSE c

RECURSIVE to_lowercase(_)
\* str::to_lowercase
to_lowercase(s) ==
    IF Len(s) = 0 THEN ""
    ELSE LowerChar(SubSeq(s, 1, 1)) \o to_lowercase(SubSeq(s, 2, Len(s)))

\* str::starts_with
starts_with(s, p) == Len(s) >= Len(p) /\ SubSeq(s, 1, Len(p)) = p

\* str::contains
contains(s, p) ==
    \E i \in 1 .. (Len(s) - Len(p) + 1) : SubSeq(s, i, i + Len(p) - 1) = p

IsWhitespace(c) == c \in {" ", "\n", "\t", "\r"}

RECURSIVE trim_start(_)
trim_start(s) ==
    IF Len(s) > 0 /\ IsWhitespace(SubSeq(s, 1, 1))
    THEN trim_start(SubSeq(s, 2, Len(s))) ELSE s

RECURSIVE trim_end(_)
trim_end(s) ==
    IF Len(s) > 0 /\ IsWhitespace(SubSeq(s, Len(s), Len(s)))
    THEN trim_end(SubSeq(s, 1, Len(s) - 1)) ELSE s

\* str::trim
trim(s) == trim_end(trim_start(s))

\* the text after the last '/' (str::rsplit('/').next())
RECURSIVE last_segment(_)
last_segment(s) ==
    IF ~contains(s, "/") THEN s
    ELSE last_segment(SubSeq(s, 2, Len(s)))

RECURSIVE IntStr(_)
\* decimal digits of a non-negative integer
IntStr(n) ==
    IF n < 10 THEN SubSeq("0123456789", n + 1, n + 1)
    ELSE IntStr(n \div 10) \o SubSeq("0123456789", (n % 10) + 1, (n % 10) + 1)

----------------------------------------------------------------------------
(* Permission bits *)

RECURSIVE AndNot(_, _)
\* m & !u on non-negative integers
AndNot(m, u) ==
    IF m = 0 THEN 0
    ELSE (IF m % 2 = 1 /\ u % 2 = 0 THEN 1 ELSE 0) + 2 * AndNot(m \div 2, u \div 2)

\* group-read (040) or other-read (004) bit set
GroupOrWorldReadable(m) == ((m \div 32) % 2 = 1) \/ ((m \div 4) % 2 = 1)

NoFile == [exists |-> FALSE, mode |-> 0, content |-> ""]

----------------------------------------------------------------------------
(* auth.rs *)

\* restrict_permissions(path)
restrict_permissions(fs, name) == [fs EXCEPT ![name].mode = MODE_0600]

\* config_dir(): create_dir_all, then owner-only access
config_dir == [exists |-> TRUE, mode |-> MODE_0700]

\* std::fs::copy(from, to): the destination takes the permission bits of the
\* source (on creation and on overwrite) and then its bytes
fs_copy(fs, name, src) ==
    [fs EXCEPT ![name] = [exists |-> TRUE, mode |-> src.mode, content |-> "secret"]]

\* std::fs::write(path, bytes): File::create opens with 0666 & !umask; an
\* existing file keeps its mode and is truncated
fs_write(fs, name, bytes, umask) ==
    [fs EXCEPT ![name] =
        [exists |-> TRUE,
         mode |-> IF fs[name].exists THEN fs[name].mode ELSE AndNot(MODE_0666, umask),
         content |-> bytes]]

\* Authenticator::token(scopes) of an InstalledFlowAuthenticator that persists
\* to tokens.json: a stored token is returned as is; with none stored the
\* installed flow (browser consent, loopback redirect) is run and, when the
\* user consents, the new token is stored in a file created with mode 0600.
AcquireToken(fs, consent) ==
    IF fs["tokens.json"].exists
    THEN [ok |-> TRUE, flow |-> FALSE, files |-> fs]
    ELSE [ok |-> consent, flow |-> TRUE,
          files |-> IF consent
                    THEN [fs EXCEPT !["tokens.json"] =
                            [exists |-> TRUE, mode |-> MODE_0600, content |-> "tokens"]]
                    ELSE fs]

NoResult == [done |-> FALSE, ok |-> FALSE, err |-> "", msg |-> ""]
Ok == [done |-> TRUE, ok |-> TRUE, err |-> "", msg |-> ""]
Err(kind, text) == [done |-> TRUE, ok |-> FALSE, err |-> kind, msg |-> text]

NoClient == [built |-> FALSE, project_id |-> ""]

NoCmd == [kind |-> "none", id |-> "", temp_f |-> 0, mode |-> "",
          source |-> [readable |-> FALSE, mode |-> 0], project_id |-> "", umask |-> 0]

Init ==
    /\ dir = [exists |-> FALSE, mode |-> 0]
    /\ files = [n \in FileNames |-> NoFile]
    /\ pc = "idle"
    /\ cmd = NoCmd
    /\ client = NoClient
    /\ device = None
    /\ pending = None
    /\ calls = << >>
    /\ netCalls = 0
    /\ flowStarted = FALSE
    /\ stdout = << >>
    /\ result = NoResult

\* the invocation returns r to main
Return(r) == pc' = "done" /\ result' = r

Running == <<cmd, client, device, pending, calls, netCalls, flowStarted, stdout>>

(* main.rs *)

\* main: Cli::parse and the match on the subcommand
Start ==
    /\ pc = "idle"
    /\ \/ \E src \in SecretSources, p \in ProjectIdArgs, u \in Umasks :
            /\ cmd' = [NoCmd EXCEPT !.kind = "login", !.source = src,
                                    !.project_id = p, !.umask = u]
            /\ pc' = "login_read"
       \/ /\ cmd' = [NoCmd EXCEPT !.kind = "list"]
          /\ pc' = "new_auth"
       \/ \E i \in DeviceRefs :
            /\ cmd' = [NoCmd EXCEPT !.kind = "status", !.id = i]
            /\ pc' = "new_auth"
       \/ \E i \in DeviceRefs, t \in TempsF :
            /\ cmd' = [NoCmd EXCEPT !.kind = "temp", !.id = i, !.temp_f = t]
            /\ pc' = "new_auth"
       \/ \E i \in DeviceRefs, m \in ModeArgs :
            /\ cmd' = [NoCmd EXCEPT !.kind = "mode", !.id = i, !.mode = m]
            /\ pc' = "mode_parse"
    /\ UNCHANGED <<dir, files, client, device, pending, calls, netCalls,
                   flowStarted, stdout, result>>

\* main: the process ends (exit status from result); the next invocation is
\* a new process
Exit ==
    /\ pc = "done"
    /\ pc' = "idle"
    /\ cmd' = NoCmd
    /\ client' = NoClient
    /\ device' = None
    /\ pending' = None
    /\ calls' = << >>
    /\ netCalls' = 0
    /\ flowStarted' = FALSE
    /\ stdout' = << >>
    /\ result' = NoResult
    /\ UNCHANGED <<dir, files>>

(* auth.rs: login *)

\* read_application_secret(client_secret_file)
LoginReadSecret ==
    /\ pc = "login_read"
    /\ IF cmd.source.readable
       THEN pc' = "login_copy" /\ UNCHANGED result
       ELSE Return(Err("IoError", "cannot read client secret"))
    /\ UNCHANGED <<dir, files>>
    /\ UNCHANGED Running

\* client_secret_path(); std::fs::copy(client_secret_file, &secret_dest)
LoginCopySecret ==
    /\ pc = "login_copy"
    /\ dir' = config_dir
    /\ \E io \in BOOLEAN :
         IF io
         THEN /\ files' = fs_copy(files, "client_secret.json", cmd.source)
              /\ pc' = "login_restrict_secret"
              /\ UNCHANGED result
         ELSE /\ Return(Err("IoError", "copy failed"))
              /\ UNCHANGED files
    /\ UNCHANGED Running

\* restrict_permissions(&secret_dest)
LoginRestrictSecret ==
    /\ pc = "login_restrict_secret"
    /\ files' = restrict_permissions(files, "client_secret.json")
    /\ pc' = "login_write_pid"
    /\ UNCHANGED <<dir, result>>
    /\ UNCHANGED Running

\* project_id_path(); std::fs::write(&pid_path, project_id)
LoginWriteProjectId ==
    /\ pc = "login_write_pid"
    /\ dir' = config_dir
    /\ \E io \in BOOLEAN :
         IF io
         THEN /\ files' = fs_write(files, "project_id", cmd.project_id, cmd.umask)
              /\ pc' = "login_restrict_pid"
              /\ UNCHANGED result
         ELSE /\ Return(Err("IoError", "write failed"))
              /\ UNCHANGED files
    /\ UNCHANGED Running

\* restrict_permissions(&pid_path)
LoginRestrictProjectId ==
    /\ pc = "login_restrict_pid"
    /\ files' = restrict_permissions(files, "project_id")
    /\ pc' = "login_token"
    /\ UNCHANGED <<dir, result>>
    /\ UNCHANGED Running

\* the authenticator is built on token_path() and auth.token(scopes) is awaited
LoginToken ==
    /\ pc = "login_token"
    /\ dir' = config_dir
    /\ \E consent \in BOOLEAN :
         LET a == AcquireToken(files, consent) IN
         /\ files' = a.files
         /\ flowStarted' = (flowStarted \/ a.flow)
         /\ IF a.ok
            THEN /\ stdout' = Append(stdout, "Login successful! Tokens saved.")
                 /\ Return(Ok)
            ELSE /\ UNCHANGED stdout
                 /\ Return(Err("AuthFlowError", "consent flow failed"))
    /\ UNCHANGED <<cmd, client, device, pending, calls, netCalls>>

----------------------------------------------------------------------------
(* client.rs *)

\* the two messages, without the back quotes around the command
NOT_LOGGED_IN == "Not logged in. Run nest-cli auth login first."
NO_PROJECT_ID == "No project ID saved. Run nest-cli auth login first."

\* get_authenticator with the existence check inverted
get_authenticator_inverted(fs) ==
    IF fs["client_secret.json"].exists
    THEN Err("NotAuthenticated", NOT_LOGGED_IN)
    ELSE NoResult

\* get_authenticator: an error when client_secret.json is missing, else the
\* authenticator (NoResult: nothing is returned to main yet)
get_authenticator(fs) ==
    IF ~fs["client_secret.json"].exists
    THEN Err("NotAuthenticated", NOT_LOGGED_IN)
    ELSE NoResult

\* Client::new: get_authenticator()
GetAuthenticator ==
    /\ pc = "new_auth"
    /\ dir' = config_dir
    /\ LET r == get_authenticator(files) IN
       IF r.done
       THEN Return(r)
       ELSE pc' = "new_pid" /\ UNCHANGED result
    /\ UNCHANGED files
    /\ UNCHANGED Running

\* where the command continues once Client::new has returned the client
AfterNew(kind) ==
    CASE kind = "list" -> "list"
      [] kind = "mode" -> "exec"
      [] OTHER -> "get"

\* Client::new: get_project_id(), then the hub and the Client are built
GetProjectId ==
    /\ pc = "new_pid"
    /\ dir' = config_dir
    /\ IF ~files["project_id"].exists
       THEN /\ Return(Err("NotAuthenticated", NO_PROJECT_ID))
            /\ UNCHANGED client
       ELSE /\ client' = [built |-> TRUE, project_id |-> trim(files["project_id"].content)]
            /\ pc' = AfterNew(cmd.kind)
            /\ UNCHANGED result
    /\ UNCHANGED <<files, cmd, device, pending, calls, netCalls, flowStarted, stdout>>

\* Client::parent
parent(c) == "enterprises/" \o c.project_id

\* resolve_device_name testing for the substring instead of the prefix
resolve_device_name_contains(c, id) ==
    IF contains(id, "enterprises/") THEN id
    ELSE parent(c) \o "/devices/" \o id

\* Client::resolve_device_name
resolve_device_name(c, id) ==
    IF starts_with(id, "enterprises/") THEN id
    ELSE parent(c) \o "/devices/" \o id

\* one request through the hub (.doit()): the hub first asks the authenticator
\* for a token, and sends the request only when it has one
HubCall(fs, consent, net) ==
    LET a == AcquireToken(fs, consent) IN
    [ok |-> a.ok /\ net, sent |-> a.ok, flow |-> a.flow, files |-> a.files]

Call(op, name, command, params, ok) ==
    [op |-> op, name |-> name, command |-> command, params |-> params, ok |-> ok]

\* the state change common to the three Client methods
Request(h, op, name, command, params) ==
    /\ files' = h.files
    /\ flowStarted' = (flowStarted \/ h.flow)
    /\ netCalls' = netCalls + (IF h.sent THEN 1 ELSE 0)
    /\ calls' = Append(calls, Call(op, name, command, params, h.ok))

API_ERROR == "request failed"

(* commands.rs *)

\* get_trait
get_trait(traits, name) ==
    IF ("sdm.devices.traits." \o name) \in DOMAIN traits
    THEN Some(traits["sdm.devices.traits." \o name]) ELSE None

\* the chain get_trait(traits, name).and_then(get(key)).and_then(as_str)
trait_str(traits, name, key) ==
    LET t == get_trait(traits, name) IN
    IF ~t.some THEN None
    ELSE LET f == JGet(t.v, key) IN
         IF ~f.some THEN None ELSE JAsStr(f.v)

unwrap_or(o, d) == IF o.some THEN o.v ELSE d

\* one line per thermostat of list_devices
list_line(d) ==
    LET name == unwrap_or(d.name, "unknown")
        custom_name == IF d.traits.some
                       THEN unwrap_or(trait_str(d.traits.v, "Info", "customName"), "(unnamed)")
                       ELSE "(unnamed)"
    IN last_segment(name) \o "  " \o custom_name

\* list_devices: Client::list_devices, the thermostat filter and the printing
ListDevices ==
    /\ pc = "list"
    /\ \E consent \in BOOLEAN, net \in BOOLEAN, resp \in ListResponses :
         LET h == HubCall(files, consent, net)
             thermostats == SelectSeq(resp, LAMBDA d : d.type_ = Some(THERMOSTAT_TYPE))
         IN
         /\ Request(h, "list", parent(client), "", None)
         /\ IF h.ok
            THEN /\ stdout' = IF Len(thermostats) = 0
                               THEN <<"No thermostats found.">>
                               ELSE [i \in 1 .. Len(thermostats) |-> list_line(thermostats[i])]
                 /\ Return(Ok)
            ELSE /\ UNCHANGED stdout
                 /\ Return(Err("ApiError", API_ERROR))
    /\ UNCHANGED <<dir, cmd, client, device, pending>>

\* GetDevice carrying on with the device after a failed request
GetDevice_ignoring_failure ==
    /\ pc = "get"
    /\ \E consent \in BOOLEAN, net \in BOOLEAN, dev \in Devices :
         LET h == HubCall(files, consent, net) IN
         /\ Request(h, "get", resolve_device_name(client, cmd.id), "", None)
         /\ device' = Some(dev)
         /\ pc' = (IF cmd.kind = "status" THEN "status_print" ELSE "temp_build")
         /\ UNCHANGED result
    /\ UNCHANGED <<dir, cmd, client, pending, stdout>>

\* Client::get_device, called first by device_status and set_temperature
GetDevice ==
    /\ pc = "get"
    /\ \E consent \in BOOLEAN, net \in BOOLEAN, dev \in Devices :
         LET h == HubCall(files, consent, net) IN
         /\ Request(h, "get", resolve_device_name(client, cmd.id), "", None)
         /\ IF h.ok
            THEN /\ device' = Some(dev)
                 /\ pc' = (IF cmd.kind = "status" THEN "status_print" ELSE "temp_build")
                 /\ UNCHANGED result
            ELSE /\ UNCHANGED device
                 /\ Return(Err("ApiError", API_ERROR))
    /\ UNCHANGED <<dir, cmd, client, pending, stdout>>

NO_TRAITS == "Device has no traits"

\* device_status after the fetch.  The modelled devices carry only the Info
\* and ThermostatMode traits, so of the optional lines only Mode can print.
DeviceStatus ==
    /\ pc = "status_print"
    /\ IF ~device.v.traits.some
       THEN /\ Return(Err("NoTraits", NO_TRAITS))
            /\ UNCHANGED stdout
       ELSE LET traits == device.v.traits.v
                custom_name == unwrap_or(trait_str(traits, "Info", "customName"), "(unnamed)")
                mode == trait_str(traits, "ThermostatMode", "mode")
            IN
            /\ stdout' = <<"Name: " \o custom_name>>
                           \o (IF mode.some THEN <<"Mode: " \o mode.v>> ELSE << >>)
            /\ Return(Ok)
    /\ UNCHANGED <<dir, files, cmd, client, device, pending, calls, netCalls, flowStarted>>

\* fahrenheit_to_celsius on an integral temperature: the rational (f-32)*5/9
fahrenheit_to_celsius(f) == JF64((f - 32) * 5, 9)

\* {:.1} of a non-negative f64 given as num/den
fmt1(x) ==
    LET tenths == (2 * 10 * x.num + x.den) \div (2 * x.den)
    IN IntStr(tenths \div 10) \o "." \o IntStr(tenths % 10)

AMBIGUOUS_SETPOINT ==
    "In HEATCOOL mode, use separate heat/cool setpoints. Switch to HEAT or COOL mode first, or set range via the Google Home app."

SET_COOL == "sdm.devices.commands.ThermostatTemperatureSetpoint.SetCool"
SET_HEAT == "sdm.devices.commands.ThermostatTemperatureSetpoint.SetHeat"
SET_MODE == "sdm.devices.commands.ThermostatMode.SetMode"

Command(name, key, value) == [command |-> name, params |-> [k \in {key} |-> value]]

\* temperature_command without the HEATCOOL arm
temperature_command_no_refusal(mode, temp_c) ==
    CASE mode = "COOL" -> Some(Command(SET_COOL, "coolCelsius", temp_c))
      [] OTHER -> Some(Command(SET_HEAT, "heatCelsius", temp_c))

\* temperature_command with the heat parameter in the COOL arm
temperature_command_heat_key(mode, temp_c) ==
    CASE mode = "COOL" -> Some(Command(SET_COOL, "heatCelsius", temp_c))
      [] mode = "HEATCOOL" -> None
      [] OTHER -> Some(Command(SET_HEAT, "heatCelsius", temp_c))

\* set_temperature: the match on the current mode
temperature_command(mode, temp_c) ==
    CASE mode = "COOL" -> Some(Command(SET_COOL, "coolCelsius", temp_c))
      [] mode = "HEATCOOL" -> None
      [] OTHER -> Some(Command(SET_HEAT, "heatCelsius", temp_c))

\* set_temperature after the fetch: traits, current mode, the command
SetTemperature ==
    /\ pc = "temp_build"
    /\ IF ~device.v.traits.some
       THEN /\ Return(Err("NoTraits", NO_TRAITS))
            /\ UNCHANGED pending
       ELSE LET mode == unwrap_or(trait_str(device.v.traits.v, "ThermostatMode", "mode"), "HEAT")
                c == temperature_command(mode, fahrenheit_to_celsius(cmd.temp_f))
            IN
            IF c.some
            THEN /\ pending' = c
                 /\ pc' = "exec"
                 /\ UNCHANGED result
            ELSE /\ Return(Err("AmbiguousSetpoint", AMBIGUOUS_SETPOINT))
                 /\ UNCHANGED pending
    /\ UNCHANGED <<dir, files, cmd, client, device, calls, netCalls, flowStarted, stdout>>

\* mode_upper with the heatcool arm returning the heat constant
mode_upper_heatcool_as_heat(lower) ==
    CASE lower = "heat" -> Some("HEAT")
      [] lower = "cool" -> Some("COOL")
      [] lower = "heatcool" -> Some("HEAT")
      [] lower = "off" -> Some("OFF")
      [] OTHER -> None

\* set_mode: the match on mode.to_lowercase()
mode_upper(lower) ==
    CASE lower = "heat" -> Some("HEAT")
      [] lower = "cool" -> Some("COOL")
      [] lower = "heatcool" -> Some("HEATCOOL")
      [] lower = "off" -> Some("OFF")
      [] OTHER -> None

\* the text of the error of the `other` arm
unknown_mode(other) == "Unknown mode: " \o other \o ". Use heat, cool, heatcool, or off."

\* set_mode before Client::new: the mode argument is checked
SetModeParse ==
    /\ pc = "mode_parse"
    /\ LET other == to_lowercase(cmd.mode)
           m == mode_upper(other)
       IN
       IF m.some
       THEN /\ pending' = Some(Command(SET_MODE, "mode", JStr(m.v)))
            /\ pc' = "new_auth"
            /\ UNCHANGED result
       ELSE /\ Return(Err("InvalidMode", unknown_mode(other)))
            /\ UNCHANGED pending
    /\ UNCHANGED <<dir, files, cmd, client, device, calls, netCalls, flowStarted, stdout>>

\* the line printed by set_temperature / set_mode on success
done_line(c, command) ==
    IF c.kind = "temp"
    THEN "Set temperature to " \o IntStr(c.temp_f) \o "°F ("
             \o fmt1(fahrenheit_to_celsius(c.temp_f)) \o "°C)"
    ELSE "Mode set to " \o command.params["mode"].v

\* Client::execute_command, called last by set_temperature and set_mode
ExecuteCommand ==
    /\ pc = "exec"
    /\ \E consent \in BOOLEAN, net \in BOOLEAN :
         LET h == HubCall(files, consent, net) IN
         /\ Request(h, "execute", resolve_device_name(client, cmd.id),
                    pending.v.command, Some(pending.v.params))
         /\ IF h.ok
            THEN /\ stdout' = <<done_line(cmd, pending.v)>>
                 /\ Return(Ok)
            ELSE /\ UNCHANGED stdout
                 /\ Return(Err("ApiError", API_ERROR))
    /\ UNCHANGED <<dir, cmd, client, device, pending>>

----------------------------------------------------------------------------

Next ==
    \/ Start
    \/ Exit
    \/ LoginReadSecret
    \/ LoginCopySecret
    \/ LoginRestrictSecret
    \/ LoginWriteProjectId
    \/ LoginRestrictProjectId
    \/ LoginToken
    \/ GetAuthenticator
    \/ GetProjectId
    \/ ListDevices
    \/ GetDevice
    \/ DeviceStatus
    \/ SetTemperature
    \/ SetModeParse
    \/ ExecuteCommand

Spec == Init /\ [][Next]_vars

----------------------------------------------------------------------------
(* Properties *)

NonLogin == {"list", "status", "temp", "mode"}
ValidLower == {"heat", "cool", "heatcool", "off"}

\* the execute_command calls of the running invocation
Executes == SelectSeq(calls, LAMBDA c : c.op = "execute")

\* the set mode argument is one of the four modes, whatever its letter case
ValidModeArg == to_lowercase(cmd.mode) \in ValidLower

\* ThermostatMode.mode of a fetched device when it is a string, read off the
\* device document directly
ReportedMode(d) ==
    IF /\ d.traits.some
       /\ "sdm.devices.traits.ThermostatMode" \in DOMAIN d.traits.v
       /\ d.traits.v["sdm.devices.traits.ThermostatMode"].t = "obj"
       /\ "mode" \in DOMAIN d.traits.v["sdm.devices.traits.ThermostatMode"].v
       /\ d.traits.v["sdm.devices.traits.ThermostatMode"].v["mode"].t = "str"
    THEN d.traits.v["sdm.devices.traits.ThermostatMode"].v["mode"].v
    ELSE "(absent)"

\* the mode set_temperature is specified to act on: HEAT when none is reported
EffectiveMode(d) == IF ReportedMode(d) = "(absent)" THEN "HEAT" ELSE ReportedMode(d)

\* the Celsius value of the target of the running `set temp`
TargetCelsius == JF64((cmd.temp_f - 32) * 5, 9)

\* set_temperature has fetched the device and is past its match on the mode
TempDecided == cmd.kind = "temp" /\ device.some /\ pc \in {"exec", "done"}

\* C1: no secret file ever exists with a mode other than owner-only 0600, so
\* none is ever group- or world-readable, in any state between two statements
\* of login or of a later command.
C1_SecretFilesOwnerOnly ==
    \A n \in FileNames :
        files[n].exists =>
            /\ files[n].mode = MODE_0600
            /\ ~GroupOrWorldReadable(files[n].mode)

\* C2: a non-login command never starts the interactive consent flow, and when
\* it ends with no token file on disk (and its arguments were valid) it has
\* failed with NotAuthenticated.
C2_NoTokensNotAuthenticated ==
    cmd.kind \in NonLogin =>
        /\ ~flowStarted
        /\ (pc = "done" /\ ~files["tokens.json"].exists /\ result.err # "InvalidMode")
              => result.err = "NotAuthenticated"

\* C3: when the device fetched by set temp reports mode HEATCOOL, the
\* invocation makes no execute_command call, never reaches the call, and ends
\* with the AmbiguousSetpoint failure.
C3_HeatCoolRefused ==
    (cmd.kind = "temp" /\ device.some /\ ReportedMode(device.v) = "HEATCOOL") =>
        /\ Len(Executes) = 0
        /\ pc # "exec"
        /\ pending = None
        /\ pc = "done" => (~result.ok /\ result.err = "AmbiguousSetpoint")

C3_Witness ==
    /\ pc = "done"
    /\ cmd.kind = "temp"
    /\ device.some
    /\ ReportedMode(device.v) = "HEATCOOL"
    /\ result.err = "AmbiguousSetpoint"
    /\ netCalls = 1

\* the command set_temperature must have built for effective mode m: SetCool
\* with the single parameter coolCelsius for COOL, SetHeat with the single
\* parameter heatCelsius for anything but COOL and HEATCOOL, and, once the
\* invocation is over, exactly one execute_command call carrying it
ChosenFor(m) ==
    /\ m = "COOL" =>
          /\ pending.some
          /\ pending.v.command = SET_COOL
          /\ DOMAIN pending.v.params = {"coolCelsius"}
          /\ pending.v.params["coolCelsius"] = TargetCelsius
    /\ m \notin {"COOL", "HEATCOOL"} =>
          /\ pending.some
          /\ pending.v.command = SET_HEAT
          /\ DOMAIN pending.v.params = {"heatCelsius"}
          /\ pending.v.params["heatCelsius"] = TargetCelsius
    /\ (m # "HEATCOOL" /\ pc = "done") =>
          /\ Len(Executes) = 1
          /\ Executes[1].command = pending.v.command
          /\ Executes[1].params = Some(pending.v.params)

\* C4 as stated: for every fetched device, a device without a ThermostatMode
\* trait included, set temp builds and dispatches the command of the effective
\* mode.
C4_EveryDeviceChoosesByMode ==
    TempDecided => ChosenFor(EffectiveMode(device.v))

\* C4 amended: the same for every fetched device that carries a traits map; a
\* device without a traits map fails with "Device has no traits" and nothing
\* is dispatched.
C4_ModeChoosesCommand ==
    /\ (TempDecided /\ device.v.traits.some) => ChosenFor(EffectiveMode(device.v))
    /\ (TempDecided /\ ~device.v.traits.some) =>
          /\ pc = "done"
          /\ result.err = "NoTraits"
          /\ Len(Executes) = 0

C4_Witness ==
    /\ pc = "done"
    /\ cmd.kind = "temp"
    /\ device.some
    /\ device.v.traits.some
    /\ "sdm.devices.traits.ThermostatMode" \notin DOMAIN device.v.traits.v
    /\ Len(Executes) = 1
    /\ Executes[1].command = SET_HEAT

\* the canonical upper-case name of a lower-case mode
Canonical(l) ==
    CASE l = "heat" -> "HEAT" [] l = "cool" -> "COOL"
      [] l = "heatcool" -> "HEATCOOL" [] l = "off" -> "OFF"

\* C5: a set mode whose argument lower-cases to heat, cool, heatcool or off
\* builds ThermostatMode.SetMode with the single parameter mode set to the
\* canonical upper-case name, which depends on the lower-cased argument only;
\* it makes at most one execute_command call, always with that command, and
\* exactly one once the client has been built and the invocation is over.
C5_SetModeCanonical ==
    (cmd.kind = "mode" /\ ValidModeArg /\ pc # "mode_parse") =>
        /\ pending.some
        /\ pending.v.command = SET_MODE
        /\ DOMAIN pending.v.params = {"mode"}
        /\ pending.v.params["mode"] = JStr(Canonical(to_lowercase(cmd.mode)))
        /\ Len(calls) = Len(Executes)
        /\ Len(Executes) <= 1
        /\ \A i \in DOMAIN Executes :
              /\ Executes[i].command = SET_MODE
              /\ Executes[i].params = Some(pending.v.params)
        /\ (pc = "done" /\ client.built) => Len(Executes) = 1

C5_Witness ==
    /\ pc = "done"
    /\ cmd.kind = "mode"
    /\ cmd.mode = "HeatCool"
    /\ result.ok
    /\ Len(Executes) = 1
    /\ Executes[1].params.v["mode"] = JStr("HEATCOOL")

\* C6: a set mode whose argument is none of the four modes fails with
\* InvalidMode, with a message that contains the argument as typed, before
\* the client is built and before any call or request is made.
C6_InvalidModeNamesInput ==
    (cmd.kind = "mode" /\ ~ValidModeArg /\ pc # "mode_parse") =>
        /\ pc = "done"
        /\ result.err = "InvalidMode"
        /\ contains(result.msg, cmd.mode)
        /\ ~client.built
        /\ Len(calls) = 0
        /\ netCalls = 0
        /\ ~flowStarted

\* the fully-qualified name of device reference r under project p
Qualified(r, p) ==
    IF Len(r) >= 12 /\ SubSeq(r, 1, 12) = "enterprises/"
    THEN r
    ELSE "enterprises/" \o p \o "/devices/" \o r

C8_NotLoggedIn ==
    /\ (/\ cmd.kind \in NonLogin
        /\ ~files["client_secret.json"].exists
        /\ ~files["project_id"].exists) =>
          /\ pc \in {"mode_parse", "new_auth", "done"}
          /\ (pc = "done" /\ result.err # "InvalidMode") => result.msg = NOT_LOGGED_IN
    /\ (/\ cmd.kind \in NonLogin
        /\ (~files["client_secret.json"].exists \/ ~files["project_id"].exists)) =>
          /\ ~client.built
          /\ Len(calls) = 0
          /\ netCalls = 0
          /\ ~flowStarted
          /\ (pc = "done" /\ result.err # "InvalidMode") =>
                /\ ~result.ok
                /\ result.err = "NotAuthenticated"
                /\ contains(result.msg, "login first")

C8_Witness ==
    /\ pc = "done"
    /\ cmd.kind = "mode"
    /\ ValidModeArg
    /\ ~files["client_secret.json"].exists
    /\ ~files["project_id"].exists
    /\ result.err = "NotAuthenticated"

\* C9: the project id a built client holds is non-empty and has no '/'.
C9_ProjectIdWellFormed ==
    client.built =>
        /\ client.project_id # ""
        /\ ~contains(client.project_id, "/")

\* a successful get_device call comes before position i of calls
FetchedBefore(i) == \E j \in 1 .. (i - 1) : calls[j].op = "get" /\ calls[j].ok

\* C10 as stated: in every invocation, each execute_command call is preceded
\* by a successful get_device call of the same invocation.
C10_AlwaysFetchFirst ==
    \A i \in DOMAIN calls : calls[i].op = "execute" => FetchedBefore(i)

\* C10 amended: in devices status and set temp the first call is get_device,
\* nothing is printed and no command is built before it has succeeded, every
\* execute_command call is preceded by a successful get_device for the same
\* name, and after a failed get_device nothing more is called; devices status
\* never calls execute_command; set mode calls execute_command without
\* fetching the device.
C10_FetchBeforeDecide ==
    /\ cmd.kind \in {"status", "temp"} =>
          /\ \A i \in DOMAIN calls :
                calls[i].op = "execute" =>
                    /\ FetchedBefore(i)
                    /\ calls[1].name = calls[i].name
          /\ Len(calls) > 0 => calls[1].op = "get"
          /\ (Len(calls) > 0 /\ ~calls[1].ok) =>
                (Len(calls) = 1 /\ pc = "done" /\ ~result.ok)
          /\ (pending.some \/ stdout # << >> \/ pc \in {"status_print", "temp_build", "exec"})
                => (Len(calls) > 0 /\ calls[1].ok /\ device.some)
    /\ cmd.kind = "status" => Len(Executes) = 0
    /\ cmd.kind = "mode" => \A i \in DOMAIN calls : calls[i].op = "execute"

C10_Witness ==
    /\ cmd.kind = "temp"
    /\ pc = "done"
    /\ Len(calls) = 2
    /\ calls[1].op = "get"
    /\ calls[1].ok
    /\ calls[2].op = "execute"

TypeOK ==
    /\ pc \in {"idle", "done", "login_read", "login_copy", "login_restrict_secret",
               "login_write_pid", "login_restrict_pid", "login_token", "new_auth",
               "new_pid", "list", "get", "status_print", "temp_build", "mode_parse", "exec"}
    /\ netCalls \in 0 .. 2
    /\ result.done = (pc = "done")

====
